---- MODULE Spec2Model ----
(***************************************************************************)
(* Solar Sentinel Suite: the dashboard's tick-driven state, the data it    *)
(* derives for each instrument card, the mock model predictor, the model   *)
(* registry and the prediction panel.                                      *)
(*                                                                         *)
(* Spec is the dashboard, SpecFn the pure functions applied to sampled     *)
(* inputs, SpecPanel the prediction panel inside the Aditya dashboard.     *)
(*                                                                         *)
(* Two dashboards exist in the repository: the one generating random mock  *)
(* readings (variant "mock") and the one with hardcoded Aditya L-1 data    *)
(* (variant "aditya").  The variable `variant` says which one is running.  *)
(*                                                                         *)
(* Numbers are exact fixed-point integers:                                 *)
(*   readings      in tenths           (78.5  is 785)                      *)
(*   risk index    in 1/180 points     (73.2  is 13176)                    *)
(*   confidences   in thousandths      (87.3  is 87300)                    *)
(*   forecasts     in thousandths      (value 81.5 is 81500, confidence    *)
(*                                      0.8 is 800), times in milliseconds *)
(*   Math.random() in hundredths       (0.9   is 90), drawn from a set     *)
(* The scales are chosen so that every formula of the source is computed   *)
(* without rounding on the values drawn.                                   *)
(***************************************************************************)
EXTENDS Integers, Sequences, FiniteSets, Bags, TLC

VARIABLES
    variant,            \* "mock" | "aditya": which dashboard component runs
    instrumentData,     \* useState: the six current readings
    riskIndex,          \* useState: the displayed risk index
    cmeDetected,        \* useState: whether the alert banner is shown
    selectedInstrument, \* useState: snapshot shown in the detail panel, or Null
    call,               \* the last pure-function application (SpecFn only)
    selectedModelInstrument, \* useState: {name, data} of the prediction panel, or Null
    predictions,        \* ModelPredictionPanel useState: results by model type
    loading,            \* ModelPredictionPanel useState: flags by model type
    activeTab,          \* ModelPredictionPanel useState: the tab shown
    requests,           \* predictWithModel promises not settled yet
    attempts,           \* history: how the latest run of each type ended
    renders,            \* history: the props the mounted panel has been given
    dashboardMounted,   \* whether the dashboard component is mounted
    dashboardIntervals, \* number of active intervals set by the dashboard's effect
    detailIntervals,    \* bag of active intervals of InstrumentDetailPanel, each
                        \* the instrument.currentReading its callback closes over
    timeSeriesData      \* InstrumentDetailPanel useState: the series shown, or Null

vars == <<variant, instrumentData, riskIndex, cmeDetected, selectedInstrument, call,
          selectedModelInstrument, predictions, loading, activeTab, requests,
          attempts, renders, dashboardMounted, dashboardIntervals, detailIntervals,
          timeSeriesData>>

timerVars == <<dashboardMounted, dashboardIntervals, detailIntervals, timeSeriesData>>

dashboardVars == <<variant, instrumentData, riskIndex, cmeDetected, selectedInstrument>>

panelVars == <<selectedModelInstrument, predictions, loading, activeTab, requests,
               attempts, renders>>

(***************************************************************************)
(* Fixed-point scales.                                                     *)
(***************************************************************************)
Tenths(x) == x * 10

Points(x) == x * 180

Milli(x) == x * 1000

MathMin(a, b) == IF a < b THEN a ELSE b

MathMax(a, b) == IF a > b THEN a ELSE b

(***************************************************************************)
(* The six instruments, by the name the dashboard gives them.              *)
(***************************************************************************)
Instruments == {"STEP", "SUIT", "PAPA", "MAG", "SoLEXS", "SWISS"}

Variants == {"mock", "aditya"}

Null == [name |-> "null"]

NoCall == [fn |-> "none"]

(***************************************************************************)
(* Values Math.random() takes in the model, in hundredths: one below every *)
(* threshold the source compares a draw with, one above.                   *)
(***************************************************************************)
RandomDraws == {0, 90}

\* draws feeding fields that are only displayed (lastEvent, eventCount)
CosmeticDraws == {50}

(***************************************************************************)
(* The six draws of one tick, one per instrument.  The draws are           *)
(* independent in the source; the model takes the vectors in which the     *)
(* first k instruments draw high (k = 0..6), exactly one draws high, or    *)
(* exactly one draws low, so that every instrument varies on its own and   *)
(* the mean reading takes seven values.                                    *)
(***************************************************************************)
InstrumentOrder == <<"STEP", "SUIT", "PAPA", "MAG", "SoLEXS", "SWISS">>

Position(i) == CHOOSE k \in 1..Len(InstrumentOrder) : InstrumentOrder[k] = i

TickDraws ==
    {[i \in Instruments |-> IF Position(i) <= k THEN 90 ELSE 0] : k \in 0..6}
        \cup {[i \in Instruments |-> IF i = j THEN 90 ELSE 0] : j \in Instruments}
        \cup {[i \in Instruments |-> IF i = j THEN 0 ELSE 90] : j \in Instruments}

(***************************************************************************)
(* generateMockData: Math.random() * 100 + offset, per instrument.         *)
(***************************************************************************)
MockOffset ==
    [STEP |-> 50, SUIT |-> 30, PAPA |-> 20, MAG |-> 40, SoLEXS |-> 60, SWISS |-> 45]

generateMockData(r) ==
    [i \in Instruments |-> Tenths(r[i] + MockOffset[i])]

(***************************************************************************)
(* generateAdityaL1Data: the hardcoded readings, and the width of the      *)
(* variation each tick adds to them.                                       *)
(***************************************************************************)
generateAdityaL1Data ==
    [STEP |-> 785, SUIT |-> 652, PAPA |-> 428, MAG |-> 893, SoLEXS |-> 716, SWISS |-> 564]

AdityaVariation ==
    [STEP |-> 5, SUIT |-> 3, PAPA |-> 4, MAG |-> 2, SoLEXS |-> 3, SWISS |-> 4]

\* baseData.x + (Math.random() - 0.5) * w
AdityaNewData(r) ==
    [i \in Instruments |->
        generateAdityaL1Data[i] + ((r[i] - 50) * AdityaVariation[i]) \div 10]

(***************************************************************************)
(* The risk score of a tick of the mock dashboard:                         *)
(*   avgReading = (step + suit + papa + mag + solexs + swiss) / 6          *)
(*   riskScore  = Math.min(Math.max((avgReading - 40) / 60 * 100, 0), 100) *)
(* With sum = 6 * avgReading in tenths, (avgReading - 40) / 60 * 100 in    *)
(* 1/180 points is (sum - 6 * 400) * 18000 / (6 * 600), an integer.        *)
(***************************************************************************)
SumReadings(newData) ==
    newData["STEP"] + newData["SUIT"] + newData["PAPA"]
        + newData["MAG"] + newData["SoLEXS"] + newData["SWISS"]

RiskScoreNoUpperClamp(newData) ==
    MathMax(((SumReadings(newData) - 6 * Tenths(40)) * Points(100))
                \div (6 * Tenths(60)), 0)

RiskScoreDeadBand30(newData) ==
    MathMin(MathMax(((SumReadings(newData) - 6 * Tenths(30)) * Points(100))
                        \div (6 * Tenths(60)), 0),
            Points(100))

RiskScore(newData) ==
    MathMin(MathMax(((SumReadings(newData) - 6 * Tenths(40)) * Points(100))
                        \div (6 * Tenths(60)), 0),
            Points(100))

(***************************************************************************)
(* getRiskLevel, the same in both dashboards.                              *)
(***************************************************************************)
getRiskLevelInclusive(risk) ==
    IF risk <= Points(30) THEN "LOW"
    ELSE IF risk <= Points(60) THEN "MODERATE"
    ELSE IF risk <= Points(85) THEN "HIGH"
    ELSE "EXTREME"

getRiskLevel(risk) ==
    IF risk < Points(30) THEN "LOW"
    ELSE IF risk < Points(60) THEN "MODERATE"
    ELSE IF risk < Points(85) THEN "HIGH"
    ELSE "EXTREME"

(***************************************************************************)
(* The data of an instrument card, built at every render.                  *)
(* `d` holds the Math.random() draws of one call, in call order.           *)
(***************************************************************************)
cmeTypes == <<"Fast CME", "Slow CME", "Halo CME", "Partial CME", "No Event">>

intensities == <<"Low", "Medium", "High">>

DetectionStatus(value) ==
    IF value > Tenths(80) THEN "ACTIVE"
    ELSE IF value > Tenths(60) THEN "MONITORING"
    ELSE "CLEAR"

GenerateDraws ==
    [type : RandomDraws, confidence : RandomDraws, intensity : RandomDraws,
     earthDirected : RandomDraws,
     hour : CosmeticDraws, minute : CosmeticDraws, eventCount : CosmeticDraws]

generateInstrumentData(name, value, d) ==
    [name |-> name,
     currentReading |-> value,
     classification |->
        [type |-> cmeTypes[((d.type * Len(cmeTypes)) \div 100) + 1],
         confidence |-> Milli(70) + d.confidence * 300,
         intensity |-> intensities[((d.intensity * Len(intensities)) \div 100) + 1],
         earthDirected |-> d.earthDirected > 70],
     detection |->
        [status |-> DetectionStatus(value),
         lastEvent |-> <<(d.hour * 24) \div 100, (d.minute * 60) \div 100>>,
         eventCount |-> (d.eventCount * 12) \div 100,
         threshold |-> Tenths(75)]]

instrumentClassifications ==
    [STEP   |-> [type |-> "Fast CME", confidence |-> 87300,
                 intensity |-> "High", earthDirected |-> TRUE],
     SUIT   |-> [type |-> "Halo CME", confidence |-> 92100,
                 intensity |-> "High", earthDirected |-> TRUE],
     PAPA   |-> [type |-> "Slow CME", confidence |-> 74600,
                 intensity |-> "Medium", earthDirected |-> FALSE],
     MAG    |-> [type |-> "Fast CME", confidence |-> 89800,
                 intensity |-> "High", earthDirected |-> TRUE],
     SoLEXS |-> [type |-> "Partial CME", confidence |-> 81200,
                 intensity |-> "Medium", earthDirected |-> FALSE],
     SWISS  |-> [type |-> "No Event", confidence |-> 95400,
                 intensity |-> "Low", earthDirected |-> FALSE]]

generateAdityaInstrumentData(name, value) ==
    [name |-> name,
     currentReading |-> value,
     classification |->
        IF name \in DOMAIN instrumentClassifications
        THEN instrumentClassifications[name]
        ELSE [type |-> "No Event", confidence |-> Milli(85),
              intensity |-> "Low", earthDirected |-> FALSE],
     detection |->
        [status |-> DetectionStatus(value),
         lastEvent |-> <<14, 32>>,
         eventCount |-> 3,
         threshold |-> Tenths(75)]]

(***************************************************************************)
(* The dashboard: state after construction.  No prediction panel is        *)
(* mounted; the state a panel has when it mounts is kept in its variables. *)
(***************************************************************************)
EmptyPrediction == [x \in {} |-> x]

ModelTypes == {"classification", "detection", "timeSeries"}

NeverRun == [t \in ModelTypes |-> "never"]

InitPanel ==
    /\ selectedModelInstrument = Null
    /\ predictions = EmptyPrediction
    /\ loading = EmptyPrediction
    /\ activeTab = "classification"
    /\ requests = {}
    /\ attempts = NeverRun
    /\ renders = 0

(***************************************************************************)
(* Intervals.  setInterval adds a handle to the active ones, clearInterval *)
(* removes the handle it is given.  A handle of the detail panel is        *)
(* identified with the instrument.currentReading its callback closes over. *)
(***************************************************************************)
setInterval(active, closure) == active (+) SetToBag({closure})

clearInterval(active, closure) == active (-) SetToBag({closure})

\* the draw of the series generated by useState when the detail panel mounts
MountDraws == {0}

\* a generated series, named by the baseValue and the Math.random() draw of
\* the generateTimeSeriesWithPrediction call that made it
GeneratedFrom(baseValue, draw) == [baseValue |-> baseValue, draw |-> draw]

\* state after the dashboard's first render and effect: one interval set,
\* no detail panel
InitTimers ==
    /\ dashboardMounted = TRUE
    /\ dashboardIntervals = 1
    /\ detailIntervals = EmptyBag
    /\ timeSeriesData = Null

\* the cleanup the detail panel's effect returns: without it the effect
\* leaves its interval running
DetailEffectWithoutCleanup(active, currentReading) == active

DetailEffectCleanup(active, currentReading) == clearInterval(active, currentReading)

\* InstrumentDetailPanel after the dashboard renders with selectedInstrument
\* set to instrument: it mounts (useState initial value, effect), unmounts
\* (cleanup), or is re-rendered with new props (cleanup and effect only if
\* instrument.currentReading changed; its state is kept)
DetailPanelAfter(instrument) ==
    IF selectedInstrument = Null
    THEN IF instrument = Null
         THEN UNCHANGED <<detailIntervals, timeSeriesData>>
         ELSE /\ \E d \in MountDraws :
                    timeSeriesData' = GeneratedFrom(instrument.currentReading, d)
              /\ detailIntervals' = setInterval(detailIntervals, instrument.currentReading)
    ELSE IF instrument = Null
         THEN /\ timeSeriesData' = Null
              /\ detailIntervals' =
                    DetailEffectCleanup(detailIntervals, selectedInstrument.currentReading)
         ELSE IF instrument.currentReading = selectedInstrument.currentReading
              THEN UNCHANGED <<detailIntervals, timeSeriesData>>
              ELSE /\ UNCHANGED timeSeriesData
                   /\ detailIntervals' =
                         setInterval(DetailEffectCleanup(detailIntervals,
                                                         selectedInstrument.currentReading),
                                     instrument.currentReading)

InitMock ==
    /\ InitTimers
    /\ variant = "mock"
    /\ \E r \in TickDraws : instrumentData = generateMockData(r)
    /\ riskIndex = 0
    /\ cmeDetected = FALSE
    /\ selectedInstrument = Null

InitAditya ==
    /\ InitTimers
    /\ variant = "aditya"
    /\ instrumentData = generateAdityaL1Data
    /\ riskIndex = Points(732) \div 10
    /\ cmeDetected = TRUE
    /\ selectedInstrument = Null

Init ==
    /\ InitMock \/ InitAditya
    /\ call = NoCall
    /\ InitPanel

(***************************************************************************)
(* The interval callback of the mock dashboard (every 2 s).                *)
(***************************************************************************)
TickMockWith(r, c) ==
    /\ variant = "mock"
    /\ dashboardIntervals > 0
    /\ LET newData == generateMockData(r)
           riskScore == RiskScore(newData)
       IN  /\ instrumentData' = newData
           /\ riskIndex' = riskScore
           /\ cmeDetected' = (riskScore > Points(75) /\ c > 70)
    /\ UNCHANGED <<variant, selectedInstrument, call, panelVars, timerVars>>

TickMock ==
    \E r \in TickDraws, c \in RandomDraws : TickMockWith(r, c)

(***************************************************************************)
(* The interval callback of the Aditya dashboard (every 5 s).              *)
(***************************************************************************)
TickAdityaWithDoubleStep(r, v) ==
    /\ variant = "aditya"
    /\ dashboardIntervals > 0
    /\ instrumentData' = AdityaNewData(r)
    /\ riskIndex' = MathMax(Points(65),
                        MathMin(Points(85),
                            riskIndex + ((v - 50) * Points(4)) \div 100))
    /\ UNCHANGED <<variant, cmeDetected, selectedInstrument, call, panelVars, timerVars>>

TickAdityaWith(r, v) ==
    /\ variant = "aditya"
    /\ dashboardIntervals > 0
    /\ instrumentData' = AdityaNewData(r)
    /\ riskIndex' = MathMax(Points(65),
                        MathMin(Points(85),
                            riskIndex + ((v - 50) * Points(2)) \div 100))
    /\ UNCHANGED <<variant, cmeDetected, selectedInstrument, call, panelVars, timerVars>>

TickAditya ==
    \E r \in TickDraws, v \in RandomDraws : TickAdityaWith(r, v)

(***************************************************************************)
(* Analyze button (or a click on the card): the card's data object of the  *)
(* current render becomes the detail panel's instrument.                   *)
(***************************************************************************)
\* The detail panel is drawn as an overlay over the whole viewport
\* (InstrumentDetailPanel.tsx:117): a pointer click reaches a card or its
\* Analyze button only while no detail panel is open.  The handlers
\* themselves (AnalyzeMockOf, AnalyzeAdityaOf) take any state; SpecTimers
\* also runs them with a detail panel open, as an activation from keyboard
\* focus does.
CardsReachable == selectedInstrument = Null

AnalyzeMockOf(i, d) ==
    /\ variant = "mock"
    /\ dashboardMounted
    /\ LET instrument == generateInstrumentData(i, instrumentData[i], d)
       IN  /\ selectedInstrument' = instrument
           /\ DetailPanelAfter(instrument)
    /\ UNCHANGED <<variant, instrumentData, riskIndex, cmeDetected, call, panelVars,
                   dashboardMounted, dashboardIntervals>>

AnalyzeMock ==
    /\ CardsReachable
    /\ \E i \in Instruments, d \in GenerateDraws : AnalyzeMockOf(i, d)

AnalyzeAdityaOf(i) ==
    /\ variant = "aditya"
    /\ dashboardMounted
    /\ LET instrument == generateAdityaInstrumentData(i, instrumentData[i])
       IN  /\ selectedInstrument' = instrument
           /\ DetailPanelAfter(instrument)
    /\ UNCHANGED <<variant, instrumentData, riskIndex, cmeDetected, call, panelVars,
                   dashboardMounted, dashboardIntervals>>

AnalyzeAditya ==
    /\ CardsReachable
    /\ \E i \in Instruments : AnalyzeAdityaOf(i)

\* onClose of the detail panel
CloseDetail ==
    /\ selectedInstrument # Null
    /\ selectedInstrument' = Null
    /\ DetailPanelAfter(Null)
    /\ UNCHANGED <<variant, instrumentData, riskIndex, cmeDetected, call, panelVars,
                   dashboardMounted, dashboardIntervals>>

Next ==
    \/ TickMock
    \/ TickAditya
    \/ AnalyzeMock
    \/ AnalyzeAditya
    \/ CloseDetail

Spec == Init /\ [][Next]_vars

(***************************************************************************)
(* predictWithModel: the mock predictor.  instrumentData is the instrument *)
(* object of the dashboard; only its value is read.  The prediction is     *)
(* returned after a 500 ms delay, which changes no value.                  *)
(***************************************************************************)
PredictedCmeTypeInclusive(value) ==
    IF value >= Tenths(80) THEN "Fast Halo CME"
    ELSE IF value >= Tenths(60) THEN "Slow CME"
    ELSE "No Event"

PredictedCmeType(value) ==
    IF value > Tenths(80) THEN "Fast Halo CME"
    ELSE IF value > Tenths(60) THEN "Slow CME"
    ELSE "No Event"

PredictedIntensityAt80And60(value) ==
    IF value > Tenths(80) THEN "High"
    ELSE IF value > Tenths(60) THEN "Medium"
    ELSE "Low"

PredictedIntensity(value) ==
    IF value > Tenths(75) THEN "High"
    ELSE IF value > Tenths(50) THEN "Medium"
    ELSE "Low"

PredictedEarthDirectedWithHigh(value) == value > Tenths(75)

PredictedEarthDirected(value) == value > Tenths(70)

PredictedIsEventInclusive(value) == value >= Tenths(65)

PredictedIsEvent(value) == value > Tenths(65)

(***************************************************************************)
(* The time-series branch: Array.from({length: 24}, (_, i) => ...).        *)
(* Element i reads Date.now() and draws Math.random() twice.  rnd.noise[i] *)
(* and rnd.confidence[i] are the draws and rnd.clock[i] the reading of     *)
(* Date.now() of element i.  Math.sin(i * 0.1) * 10 is tabulated, rounded  *)
(* to thousandths.                                                         *)
(***************************************************************************)
SeriesLength == 24

Horizon == 24

SeriesIndex == 0..(SeriesLength - 1)

SinTimes10 ==
    <<0, 998, 1987, 2955, 3894, 4794, 5646, 6442, 7174, 7833, 8415, 8912,
      9320, 9636, 9854, 9975, 9996, 9917, 9738, 9463, 9093, 8632, 8085, 7457>>

SeriesPointTimeBackwards(now, i) == now - i * 60000

SeriesPointTime(now, i) == now + i * 60000

SeriesPoint(value, rnd, i) ==
    [time |-> SeriesPointTime(rnd.clock[i], i),
     value |-> value * 100 + SinTimes10[i + 1] + (rnd.noise[i] - 50) * 50,
     confidence |-> MathMax(700, MathMin(950, 800 + (rnd.confidence[i] - 50) * 2))]

predictWithModel(instrumentDatum, modelType, rnd) ==
    LET value == instrumentDatum.value
        mockPredictions ==
            [classification |->
                [classification |->
                    [cmeType |-> PredictedCmeType(value),
                     confidence |-> MathMin(Milli(95), Milli(70) + value * 30),
                     intensity |-> PredictedIntensity(value),
                     earthDirected |-> PredictedEarthDirected(value)]],
             detection |->
                [detection |->
                    [isEvent |-> PredictedIsEvent(value),
                     confidence |-> MathMin(Milli(98), Milli(60) + value * 40),
                     threshold |-> Tenths(65)]],
             timeSeries |->
                [timeSeries |->
                    [predictions |->
                        [k \in 1..SeriesLength |-> SeriesPoint(value, rnd, k - 1)],
                     horizon |-> Horizon]]]
    IN  IF modelType \in DOMAIN mockPredictions
        THEN mockPredictions[modelType]
        ELSE EmptyPrediction

(***************************************************************************)
(* MODEL_REGISTRY, SPECIALIZED_MODELS and getInstrumentModels.             *)
(* MODEL_REGISTRY[instrumentName] || null: a name without an entry gives   *)
(* null.                                                                   *)
(***************************************************************************)
MODEL_REGISTRY_TimeSeriesForAll ==
    [STEP   |-> [name |-> "Solar Terrestrial Environment Probe",
                 classification |-> "/models/step_classification.pkl",
                 detection |-> "/models/step_detection.pkl",
                 timeSeries |-> "/models/proton_flux_prediction.pkl"],
     SUIT   |-> [name |-> "Solar Ultraviolet Imaging Telescope",
                 classification |-> "/models/suit_classification.pkl",
                 detection |-> "/models/suit_detection.pkl",
                 timeSeries |-> "/models/unified_timeseries.pkl"],
     PAPA   |-> [name |-> "Plasma Analyser Package",
                 classification |-> "/models/papa_classification.pkl",
                 detection |-> "/models/papa_detection.pkl",
                 timeSeries |-> "/models/solar_wind_prediction.pkl"],
     MAG    |-> [name |-> "Magnetometer",
                 classification |-> "/models/mag_classification.pkl",
                 detection |-> "/models/mag_detection.pkl",
                 timeSeries |-> "/models/magnetic_field_prediction.pkl"],
     SoLEXS |-> [name |-> "Solar Low Energy X-ray Spectrometer",
                 classification |-> "/models/solexs_classification.pkl",
                 detection |-> "/models/solexs_detection.pkl",
                 timeSeries |-> "/models/unified_timeseries.pkl"],
     SWISS  |-> [name |-> "Solar Wind Ion Spectrometer",
                 classification |-> "/models/swiss_classification.pkl",
                 detection |-> "/models/swiss_detection.pkl",
                 timeSeries |-> "/models/unified_timeseries.pkl"]]

MODEL_REGISTRY_CopiedTimeSeries ==
    [STEP   |-> [name |-> "Solar Terrestrial Environment Probe",
                 classification |-> "/models/step_classification.pkl",
                 detection |-> "/models/step_detection.pkl",
                 timeSeries |-> "/models/proton_flux_prediction.pkl"],
     SUIT   |-> [name |-> "Solar Ultraviolet Imaging Telescope",
                 classification |-> "/models/suit_classification.pkl",
                 detection |-> "/models/suit_detection.pkl"],
     PAPA   |-> [name |-> "Plasma Analyser Package",
                 classification |-> "/models/papa_classification.pkl",
                 detection |-> "/models/papa_detection.pkl",
                 timeSeries |-> "/models/proton_flux_prediction.pkl"],
     MAG    |-> [name |-> "Magnetometer",
                 classification |-> "/models/mag_classification.pkl",
                 detection |-> "/models/mag_detection.pkl",
                 timeSeries |-> "/models/magnetic_field_prediction.pkl"],
     SoLEXS |-> [name |-> "Solar Low Energy X-ray Spectrometer",
                 classification |-> "/models/solexs_classification.pkl",
                 detection |-> "/models/solexs_detection.pkl"],
     SWISS  |-> [name |-> "Solar Wind Ion Spectrometer",
                 classification |-> "/models/swiss_classification.pkl",
                 detection |-> "/models/swiss_detection.pkl"]]

MODEL_REGISTRY ==
    [STEP   |-> [name |-> "Solar Terrestrial Environment Probe",
                 classification |-> "/models/step_classification.pkl",
                 detection |-> "/models/step_detection.pkl",
                 timeSeries |-> "/models/proton_flux_prediction.pkl"],
     SUIT   |-> [name |-> "Solar Ultraviolet Imaging Telescope",
                 classification |-> "/models/suit_classification.pkl",
                 detection |-> "/models/suit_detection.pkl"],
     PAPA   |-> [name |-> "Plasma Analyser Package",
                 classification |-> "/models/papa_classification.pkl",
                 detection |-> "/models/papa_detection.pkl",
                 timeSeries |-> "/models/solar_wind_prediction.pkl"],
     MAG    |-> [name |-> "Magnetometer",
                 classification |-> "/models/mag_classification.pkl",
                 detection |-> "/models/mag_detection.pkl",
                 timeSeries |-> "/models/magnetic_field_prediction.pkl"],
     SoLEXS |-> [name |-> "Solar Low Energy X-ray Spectrometer",
                 classification |-> "/models/solexs_classification.pkl",
                 detection |-> "/models/solexs_detection.pkl"],
     SWISS  |-> [name |-> "Solar Wind Ion Spectrometer",
                 classification |-> "/models/swiss_classification.pkl",
                 detection |-> "/models/swiss_detection.pkl"]]

SPECIALIZED_MODELS ==
    [unified_timeseries |-> "/models/unified_timeseries.pkl",
     cme_arrival_prediction |-> "/models/cme_arrival_prediction.pkl"]

NullModels == [name |-> "null"]

getInstrumentModelsWithDefault(instrumentName) ==
    IF instrumentName \in DOMAIN MODEL_REGISTRY
    THEN MODEL_REGISTRY[instrumentName]
    ELSE MODEL_REGISTRY["STEP"]

getInstrumentModels(instrumentName) ==
    IF instrumentName \in DOMAIN MODEL_REGISTRY
    THEN MODEL_REGISTRY[instrumentName]
    ELSE NullModels

\* models.timeSeries is defined
HasTimeSeries(models) == "timeSeries" \in DOMAIN models

\* an instrument of the Aditya-L1 payload the registry has no entry for
UnregisteredName == "ASPEX"

(***************************************************************************)
(* The risk computation of a tick applied to an arbitrary reading object.  *)
(* A field the object lacks reads as undefined, the sum is then NaN, and   *)
(* Math.max / Math.min return NaN; every comparison of getRiskLevel with   *)
(* NaN is false, so the level of NaN is the last one.  Nothing is thrown.  *)
(***************************************************************************)
NaN == [nan |-> TRUE]

Number(x) == [nan |-> FALSE, val |-> x]

riskScoreOf(newData) ==
    IF Instruments \subseteq DOMAIN newData
    THEN Number(RiskScore(newData))
    ELSE NaN

riskLevelOf(risk) ==
    IF risk.nan THEN "EXTREME" ELSE getRiskLevel(risk.val)

(***************************************************************************)
(* Inputs of the pure functions.                                           *)
(* Reading objects: STEP takes values that put the mean on every boundary  *)
(* of the score and of the level (means 40, 58, 70, 76, 91, 100), below 0  *)
(* and above 100; each other instrument reads 40 or 100.  Incomplete       *)
(* objects lack one instrument.                                            *)
(***************************************************************************)
StepSamples == {Tenths(x) : x \in {-50, 16, 28, 40, 46, 100, 150}}

OtherSamples == {Tenths(40), Tenths(100)}

CompleteReadings ==
    {[i \in Instruments |-> IF i = "STEP" THEN s ELSE o[i]] :
        s \in StepSamples, o \in [Instruments \ {"STEP"} -> OtherSamples]}

IncompleteReadings ==
    UNION {[Instruments \ {j} -> OtherSamples] : j \in Instruments}

\* reading values around the thresholds 50, 60, 65, 70, 75 and 80, far below
\* 0 and above 100, in tenths
PredictValues ==
    {-3000, -100, 300, 500, 501, 600, 601, 610, 650, 651, 700, 701, 750, 751,
     760, 800, 801, 810, 1200}

\* reading values of the time-series calls
SeriesValues == {300, 810}

(***************************************************************************)
(* The 24 draws of a kind in one time-series call: all low, all high, or   *)
(* alternating.  The 24 readings of Date.now(): the clock does not go back *)
(* during the call; it stands still, advances 1 ms per element, or         *)
(* advances once in the middle.                                            *)
(***************************************************************************)
SeriesDraws ==
    {[i \in SeriesIndex |-> 0], [i \in SeriesIndex |-> 90],
     [i \in SeriesIndex |-> IF i % 2 = 0 THEN 0 ELSE 90]}

ClockStarts == {5000}

ClockReadings ==
    UNION {{[i \in SeriesIndex |-> t], [i \in SeriesIndex |-> t + i],
            [i \in SeriesIndex |-> IF i < 12 THEN t ELSE t + 1]} : t \in ClockStarts}

SeriesRandom == [noise : SeriesDraws, confidence : SeriesDraws, clock : ClockReadings]

\* the draws of a call whose time-series branch is not returned
AnyRandom == CHOOSE rnd \in SeriesRandom : TRUE

GenerateValues == {500, 600, 610, 750, 760, 800, 801, 1200}

(***************************************************************************)
(* SpecFn: the pure functions applied to inputs drawn from the sets above. *)
(* `call` records the last application: function, arguments, result.       *)
(***************************************************************************)
CallRiskScore ==
    /\ \E newData \in CompleteReadings \cup IncompleteReadings :
        call' = [fn |-> "riskScore",
                 args |-> newData,
                 result |-> [riskScore |-> riskScoreOf(newData),
                             level |-> riskLevelOf(riskScoreOf(newData)),
                             thrown |-> "none"]]
    /\ UNCHANGED <<dashboardVars, panelVars, timerVars>>

CallGenerateInstrumentData ==
    /\ \E name \in Instruments, value \in GenerateValues, d \in GenerateDraws :
        call' = [fn |-> "generateInstrumentData",
                 args |-> [name |-> name, value |-> value],
                 result |-> generateInstrumentData(name, value, d)]
    /\ UNCHANGED <<dashboardVars, panelVars, timerVars>>

CallGenerateAdityaInstrumentData ==
    /\ \E name \in Instruments, value \in GenerateValues :
        call' = [fn |-> "generateAdityaInstrumentData",
                 args |-> [name |-> name, value |-> value],
                 result |-> generateAdityaInstrumentData(name, value)]
    /\ UNCHANGED <<dashboardVars, panelVars, timerVars>>

CallPredictWithModel ==
    /\ \/ \E value \in PredictValues, modelType \in {"classification", "detection"} :
            call' = [fn |-> "predictWithModel",
                     args |-> [value |-> value, modelType |-> modelType],
                     result |-> predictWithModel([value |-> value], modelType, AnyRandom)]
       \/ \E value \in SeriesValues, rnd \in SeriesRandom :
            call' = [fn |-> "predictWithModel",
                     args |-> [value |-> value, modelType |-> "timeSeries"],
                     result |-> predictWithModel([value |-> value], "timeSeries", rnd)]
    /\ UNCHANGED <<dashboardVars, panelVars, timerVars>>

CallGetInstrumentModels ==
    /\ \E instrumentName \in Instruments \cup {UnregisteredName} :
        call' = [fn |-> "getInstrumentModels",
                 args |-> [instrumentName |-> instrumentName],
                 result |-> getInstrumentModels(instrumentName)]
    /\ UNCHANGED <<dashboardVars, panelVars, timerVars>>

(***************************************************************************)
(* InstrumentDetailPanel: generateTimeSeriesWithPrediction(baseValue).     *)
(* Values are in 1/10000 of a reading unit.  `now` is the one reading of   *)
(* Date.now(); rnd.variation[i] and rnd.anomaly[i] are the two draws of    *)
(* historical point i.  Math.sin(i * 0.1) for i = 0..120 and               *)
(* Math.sin(i * 0.15) for i = 1..120 are tabulated times 10000, rounded.   *)
(***************************************************************************)
HistoryMinutes == 120

FutureMinutes == 120

SinTenth ==
    <<0, 998, 1987, 2955, 3894, 4794, 5646, 6442, 7174, 7833,
      8415, 8912, 9320, 9636, 9854, 9975, 9996, 9917, 9738, 9463,
      9093, 8632, 8085, 7457, 6755, 5985, 5155, 4274, 3350, 2392,
      1411, 416, -584, -1577, -2555, -3508, -4425, -5298, -6119, -6878,
      -7568, -8183, -8716, -9162, -9516, -9775, -9937, -9999, -9962, -9825,
      -9589, -9258, -8835, -8323, -7728, -7055, -6313, -5507, -4646, -3739,
      -2794, -1822, -831, 168, 1165, 2151, 3115, 4048, 4941, 5784,
      6570, 7290, 7937, 8504, 8987, 9380, 9679, 9882, 9985, 9989,
      9894, 9699, 9407, 9022, 8546, 7985, 7344, 6630, 5849, 5010,
      4121, 3191, 2229, 1245, 248, -752, -1743, -2718, -3665, -4575,
      -5440, -6251, -6999, -7677, -8278, -8797, -9228, -9566, -9809, -9954,
      -10000, -9946, -9792, -9540, -9193, -8755, -8228, -7620, -6935, -6181,
      -5366>>

SinFifteenHundredth ==
    <<1494, 2955, 4350, 5646, 6816, 7833, 8674, 9320, 9757, 9975,
      9969, 9738, 9290, 8632, 7781, 6755, 5577, 4274, 2875, 1411,
      -84, -1577, -3035, -4425, -5716, -6878, -7885, -8716, -9351, -9775,
      -9981, -9962, -9719, -9258, -8589, -7728, -6692, -5507, -4198, -2794,
      -1328, 168, 1660, 3115, 4500, 5784, 6938, 7937, 8757, 9380,
      9793, 9985, 9954, 9699, 9226, 8546, 7674, 6630, 5436, 4121,
      2713, 1245, -252, -1743, -3195, -4575, -5853, -6999, -7988, -8797,
      -9409, -9809, -9990, -9946, -9678, -9193, -8502, -7620, -6567, -5366,
      -4044, -2632, -1161, 336, 1826, 3275, 4650, 5921, 7059, 8038,
      8837, 9437, 9825, 9993, 9936, 9657, 9160, 8457, 7565, 6503,
      5295, 3967, 2551, 1078, -420, -1909, -3354, -4724, -5988, -7118,
      -8088, -8876, -9464, -9841, -9996, -9927, -9634, -9126, -8412, -7510>>

\* the values baseValue takes, in tenths: negative, zero, low, middle, the
\* STEP reading, the top of the scale
DetailBases == {-300, 0, 50, 250, 785, 1000}

\* every point of a series draws the same Math.random(): lowest, middle,
\* high, above the anomaly draw 0.95
DetailDraws == {0, 50, 90, 99}

DetailRandom ==
    {[variation |-> [i \in 0..HistoryMinutes |-> v],
      anomaly |-> [i \in 0..HistoryMinutes |-> a]] : v \in DetailDraws, a \in DetailDraws}

DetailClocks == {0, 7200000, 9000000}

HistoricalPoint(baseValue, now, rnd, i) ==
    LET variation == SinTenth[i + 1] * 20 + (rnd.variation[i] - 50) * 2000
        value == MathMax(0, baseValue * 1000 + variation)
    IN  [time |-> now - i * 60000,
         value |-> value,
         anomaly |-> (value > baseValue * 1000 + 500000 \/ rnd.anomaly[i] > 95)]

PredictedPointUnclamped(baseValue, now, i) ==
    [time |-> now + i * 60000,
     value |-> Null,
     prediction |-> baseValue * 1000 + i * 1000 + SinFifteenHundredth[i] * 15]

PredictedPoint(baseValue, now, i) ==
    [time |-> now + i * 60000,
     value |-> Null,
     prediction |-> MathMax(0, baseValue * 1000 + i * 1000 + SinFifteenHundredth[i] * 15)]

generateTimeSeriesWithPrediction(baseValue, now, rnd) ==
    [k \in 1..(HistoryMinutes + 1) |->
        HistoricalPoint(baseValue, now, rnd, HistoryMinutes + 1 - k)]
    \o [k \in 1..FutureMinutes |-> PredictedPoint(baseValue, now, k)]

CallGenerateTimeSeriesWithPrediction ==
    /\ \E baseValue \in DetailBases, now \in DetailClocks, rnd \in DetailRandom :
        call' = [fn |-> "generateTimeSeriesWithPrediction",
                 args |-> [baseValue |-> baseValue, now |-> now],
                 result |-> generateTimeSeriesWithPrediction(baseValue, now, rnd)]
    /\ UNCHANGED <<dashboardVars, panelVars, timerVars>>

InitFn ==
    /\ InitAditya
    /\ call = NoCall
    /\ InitPanel

NextFn ==
    \/ CallRiskScore
    \/ CallGenerateInstrumentData
    \/ CallGenerateAdityaInstrumentData
    \/ CallPredictWithModel
    \/ CallGetInstrumentModels

SpecFn == InitFn /\ [][NextFn]_vars

\* the detail panel's generator on its own: every state after the first
\* holds one generated series
NextSeries == CallGenerateTimeSeriesWithPrediction

SpecSeries == InitFn /\ [][NextSeries]_vars

(***************************************************************************)
(* ModelPredictionPanel, hosted by the Aditya dashboard.                   *)
(*                                                                         *)
(* The dashboard renders the panel while selectedModelInstrument is set    *)
(* and passes its name and data as props.  The panel's useState cells      *)
(* (predictions, loading, activeTab) live from mount to unmount; a render  *)
(* with other props at the same place keeps them.                          *)
(***************************************************************************)
Undefined == [undefined |-> TRUE]

\* one element of the dashboard's instruments array (part_000:112-160)
InstrumentCard(i, readings) ==
    [name |-> i,
     value |-> readings[i],
     status |-> IF readings[i] > Tenths(80) THEN "alert" ELSE "normal",
     data |-> generateAdityaInstrumentData(i, readings[i])]

\* cards whose Predict button the model presses: one instrument with a
\* time-series model reference, one without
PanelInstruments == {"STEP", "SUIT"}

\* cards whose Analyze button the model presses
DetailInstruments == {"STEP"}

(***************************************************************************)
(* Props the dashboard never passes but the component's signature          *)
(* (instrumentName: string, instrumentData: any) admits: a name without    *)
(* registry entry, and data that is undefined, on which predictWithModel   *)
(* rejects (instrumentData.value throws inside the async function).        *)
(***************************************************************************)
HostProps ==
    {[name |-> UnregisteredName,
      data |-> [name |-> UnregisteredName, value |-> Tenths(70), status |-> "normal"]],
     [name |-> "STEP", data |-> Undefined]}

\* the tick's draws taken while a panel is modelled: every reading drawn
\* below its base value, the risk index drawn to stay where it is (its walk
\* is explored by Spec, and no panel operation reads it)
PanelTicks ==
    {[r |-> [i \in Instruments |-> 0], v |-> 50]}

\* the draws and clock readings of a forecast computed for the panel
PanelSeriesRandom ==
    {rnd \in SeriesRandom :
        /\ rnd.noise = rnd.confidence
        /\ \A i \in SeriesIndex : rnd.noise[i] = rnd.noise[0]
        /\ \A i \in SeriesIndex : rnd.clock[i] = rnd.clock[0]}

\* props one mounted panel is given: those it mounts with and one change
MaxRenders == 2

Models == getInstrumentModels(selectedModelInstrument.name)

Mounted == selectedModelInstrument # Null

\* loading[t] is truthy
Loading(t) == t \in DOMAIN loading /\ loading[t]

\* what the panel renders
PanelView ==
    IF ~Mounted THEN "none"
    ELSE IF Models = NullModels THEN "Models Not Found"
    ELSE "Model Predictions"

\* the detection tab reads instrumentData.value when it shows a result
RenderThrows(props, preds, tab) ==
    /\ getInstrumentModels(props.name) # NullModels
    /\ props.data = Undefined
    /\ tab = "detection"
    /\ "detection" \in DOMAIN preds

\* modelType === 'timeSeries' ? models.timeSeries : models[modelType]
HasModelPath(models, modelType) == modelType \in DOMAIN models

\* the second argument of predictWithModel: the instrumentData prop
RequestDataLive(props) ==
    IF props.name \in Instruments
    THEN InstrumentCard(props.name, instrumentData)
    ELSE props.data

RequestData(props) == props.data

MergeReplacing(prev, result) == result

MergeAppending(prev, result) ==
    [k \in DOMAIN prev \cup DOMAIN result |->
        IF k \notin DOMAIN result THEN prev[k]
        ELSE IF k = "timeSeries" /\ k \in DOMAIN prev
        THEN [predictions |-> prev[k].predictions \o result[k].predictions,
              horizon |-> result[k].horizon]
        ELSE result[k]]

\* { ...prev, ...result }
Merge(prev, result) ==
    [k \in DOMAIN prev \cup DOMAIN result |->
        IF k \in DOMAIN result THEN result[k] ELSE prev[k]]

\* { ...prev, [modelType]: flag }
WithFlag(prev, modelType, flag) ==
    [k \in DOMAIN prev \cup {modelType} |->
        IF k = modelType THEN flag ELSE prev[k]]

(***************************************************************************)
(* runPrediction up to its await, for each model type of `types` (Predict  *)
(* All calls it for several types in one event handler).  Without models   *)
(* it returns at once.  Otherwise loading[t] is set; a type without model  *)
(* path throws, is caught and has loading[t] cleared in the same handler;  *)
(* for the others predictWithModel is invoked with the props of this       *)
(* render and the promise is pending.  `ahead` keeps promises of one type  *)
(* apart: it counts those of the type already pending in this panel.       *)
(* `attempts` remembers of a fulfilled forecast run whether it replaced an  *)
(* earlier forecast.                                                       *)
(***************************************************************************)
StartedTypes(types) ==
    IF Models = NullModels THEN {}
    ELSE {t \in types : HasModelPath(Models, t)}

LoadingAfterRun(types) ==
    IF Models = NullModels THEN loading
    ELSE [k \in DOMAIN loading \cup types |->
            IF k \in types THEN k \in StartedTypes(types) ELSE loading[k]]

RequestsAfterRun(types) ==
    requests \cup
        {[modelType |-> t,
          instrumentName |-> selectedModelInstrument.name,
          instrumentData |-> RequestData(selectedModelInstrument),
          live |-> TRUE,
          ahead |-> Cardinality({req \in requests :
                                    req.live /\ req.modelType = t})]
            : t \in StartedTypes(types)}

AttemptsAfterRun(types) ==
    IF Models = NullModels THEN attempts
    ELSE [t \in ModelTypes |->
            IF t \in StartedTypes(types) THEN "pending"
            ELSE IF t \in types THEN "rejected"
            ELSE attempts[t]]

runPrediction(types) ==
    /\ Mounted
    /\ loading' = LoadingAfterRun(types)
    /\ requests' = RequestsAfterRun(types)
    /\ attempts' = AttemptsAfterRun(types)
    /\ UNCHANGED <<selectedModelInstrument, predictions, activeTab, renders,
                   dashboardVars, call, timerVars>>

RunClassificationWhileLoading ==
    /\ PanelView = "Model Predictions"
    /\ activeTab = "classification"
    /\ runPrediction({"classification"})

\* the Run Classification button of the classification tab
RunClassification ==
    /\ PanelView = "Model Predictions"
    /\ activeTab = "classification"
    /\ ~Loading("classification")
    /\ runPrediction({"classification"})

\* the Run Detection button of the detection tab
RunDetection ==
    /\ PanelView = "Model Predictions"
    /\ activeTab = "detection"
    /\ ~Loading("detection")
    /\ runPrediction({"detection"})

\* the Run Prediction button, rendered in the time-series tab only when
\* models.timeSeries is set
RunTimeSeries ==
    /\ PanelView = "Model Predictions"
    /\ activeTab = "timeseries"
    /\ HasTimeSeries(Models)
    /\ ~Loading("timeSeries")
    /\ runPrediction({"timeSeries"})

\* the Predict All button, disabled while any flag is set
runAllPredictions ==
    /\ PanelView = "Model Predictions"
    /\ \A t \in ModelTypes : ~Loading(t)
    /\ runPrediction({"classification", "detection"}
                        \cup (IF HasTimeSeries(Models) THEN {"timeSeries"} ELSE {}))

\* a tab trigger; the Time Series trigger is disabled without the model
SelectTab ==
    /\ PanelView = "Model Predictions"
    /\ \E tab \in {"classification", "detection", "timeseries"} :
        /\ tab # activeTab
        /\ tab = "timeseries" => HasTimeSeries(Models)
        /\ ~RenderThrows(selectedModelInstrument, predictions, tab)
        /\ activeTab' = tab
    /\ UNCHANGED <<selectedModelInstrument, predictions, loading, requests,
                   attempts, renders, dashboardVars, call, timerVars>>

(***************************************************************************)
(* The promise of a request settles (500 ms after the invocation).  The    *)
(* continuation of a panel that has unmounted since sets state of a        *)
(* component that is gone, which React ignores.  Otherwise a rejection     *)
(* goes to catch (console.error only), a result is merged into             *)
(* predictions, and finally clears loading[t].                             *)
(***************************************************************************)
DashboardAfterSettleRefreshed ==
    /\ instrumentData' = generateAdityaL1Data
    /\ UNCHANGED <<variant, riskIndex, cmeDetected, selectedInstrument>>

DashboardAfterSettle == UNCHANGED dashboardVars

SettleDroppingOnFailure(req, rnd) ==
    /\ req \in requests
    /\ requests' = requests \ {req}
    /\ IF ~req.live
       THEN UNCHANGED <<predictions, loading, attempts>>
       ELSE /\ loading' = WithFlag(loading, req.modelType, FALSE)
            /\ IF req.instrumentData = Undefined
               THEN /\ predictions' =
                        [k \in DOMAIN predictions \ {req.modelType} |-> predictions[k]]
                    /\ attempts' = [attempts EXCEPT ![req.modelType] = "rejected"]
               ELSE /\ predictions' =
                        Merge(predictions,
                              predictWithModel(req.instrumentData, req.modelType, rnd))
                    /\ attempts' = [attempts EXCEPT ![req.modelType] =
                                        IF /\ req.modelType = "timeSeries"
                                           /\ "timeSeries" \in DOMAIN predictions
                                        THEN "replaced" ELSE "fulfilled"]
                    /\ ~RenderThrows(selectedModelInstrument, predictions', activeTab)
    /\ UNCHANGED <<dashboardVars, selectedModelInstrument, activeTab, renders, call,
                 timerVars>>

SettleWithoutFinally(req, rnd) ==
    /\ req \in requests
    /\ requests' = requests \ {req}
    /\ IF ~req.live
       THEN UNCHANGED <<predictions, loading, attempts>>
       ELSE IF req.instrumentData = Undefined
            THEN /\ UNCHANGED <<predictions, loading>>
                 /\ attempts' = [attempts EXCEPT ![req.modelType] = "rejected"]
            ELSE /\ loading' = WithFlag(loading, req.modelType, FALSE)
                 /\ predictions' =
                        Merge(predictions,
                              predictWithModel(req.instrumentData, req.modelType, rnd))
                 /\ attempts' = [attempts EXCEPT ![req.modelType] = "fulfilled"]
    /\ UNCHANGED <<dashboardVars, selectedModelInstrument, activeTab, renders, call,
                 timerVars>>

SettleIgnoringUnmount(req, rnd) ==
    /\ req \in requests
    /\ requests' = requests \ {req}
    /\ loading' = WithFlag(loading, req.modelType, FALSE)
    /\ IF req.instrumentData = Undefined
       THEN /\ UNCHANGED predictions
            /\ attempts' = [attempts EXCEPT ![req.modelType] = "rejected"]
       ELSE /\ predictions' =
                Merge(predictions,
                      predictWithModel(req.instrumentData, req.modelType, rnd))
            /\ attempts' = [attempts EXCEPT ![req.modelType] = "fulfilled"]
    /\ UNCHANGED <<dashboardVars, selectedModelInstrument, activeTab, renders, call,
                 timerVars>>

Settle(req, rnd) ==
    /\ req \in requests
    /\ requests' = requests \ {req}
    /\ IF ~req.live
       THEN UNCHANGED <<predictions, loading, attempts>>
       ELSE /\ loading' = WithFlag(loading, req.modelType, FALSE)
            /\ IF req.instrumentData = Undefined
               THEN /\ UNCHANGED predictions
                    /\ attempts' = [attempts EXCEPT ![req.modelType] = "rejected"]
               ELSE /\ predictions' =
                        Merge(predictions,
                              predictWithModel(req.instrumentData, req.modelType, rnd))
                    /\ attempts' = [attempts EXCEPT ![req.modelType] =
                                        IF /\ req.modelType = "timeSeries"
                                           /\ "timeSeries" \in DOMAIN predictions
                                        THEN "replaced" ELSE "fulfilled"]
                    /\ ~RenderThrows(selectedModelInstrument, predictions', activeTab)
    /\ DashboardAfterSettle
    /\ UNCHANGED <<selectedModelInstrument, activeTab, renders, call, timerVars>>

SettleRequest ==
    \E req \in requests :
        \E rnd \in (IF req.modelType = "timeSeries" /\ req.live
                    THEN PanelSeriesRandom ELSE {AnyRandom}) :
            Settle(req, rnd)

(***************************************************************************)
(* setSelectedModelInstrument(props): with no panel the panel mounts, with *)
(* a panel it renders again with the new props and keeps its state.        *)
(***************************************************************************)
RenderPanel(props) ==
    /\ props # selectedModelInstrument
    /\ ~RenderThrows(props, predictions, activeTab)
    /\ props.data = Undefined =>
            ~\E req \in requests : req.live /\ req.modelType = "detection"
    /\ renders < MaxRenders
    /\ selectedModelInstrument' = props
    /\ renders' = renders + 1
    /\ UNCHANGED <<predictions, loading, activeTab, requests, attempts,
                   dashboardVars, call, timerVars>>

\* in SpecPanel a panel mounts only when no promise of an earlier panel is
\* pending (SpecReopen explores the other case)
setSelectedModelInstrument(props) ==
    /\ ~Mounted => requests = {}
    /\ RenderPanel(props)

\* the Predict button of a card
PredictButton ==
    \E i \in PanelInstruments :
        setSelectedModelInstrument([name |-> i, data |-> InstrumentCard(i, instrumentData)])

\* another host renders the panel
HostRender ==
    \E props \in HostProps : setSelectedModelInstrument(props)

\* onClose: the panel unmounts, its state is dropped, its pending promises
\* stay pending
PanelUnmount ==
    /\ selectedModelInstrument' = Null
    /\ predictions' = EmptyPrediction
    /\ loading' = EmptyPrediction
    /\ activeTab' = "classification"
    /\ requests' = {[req EXCEPT !.live = FALSE] : req \in requests}
    /\ attempts' = NeverRun
    /\ renders' = 0

ClosePanel ==
    /\ Mounted
    /\ PanelUnmount
    /\ UNCHANGED <<dashboardVars, call, timerVars>>

TickHost ==
    \E d \in PanelTicks : TickAdityaWith(d.r, d.v)

AnalyzeHost ==
    /\ CardsReachable
    /\ \E i \in DetailInstruments : AnalyzeAdityaOf(i)

InitHost ==
    /\ InitAditya
    /\ call = NoCall
    /\ InitPanel

NextPanel ==
    \/ TickHost
    \/ AnalyzeHost
    \/ CloseDetail
    \/ PredictButton
    \/ HostRender
    \/ ClosePanel
    \/ SelectTab
    \/ RunClassification
    \/ RunDetection
    \/ RunTimeSeries
    \/ runAllPredictions
    \/ SettleRequest

SpecPanel == InitHost /\ [][NextPanel]_vars

(***************************************************************************)
(* The promise of predictWithModel settles when its 500 ms timeout fires   *)
(* and the async function runs on: every pending request is settled        *)
(* eventually, whatever else goes on.                                      *)
(***************************************************************************)
SettleType(t) ==
    \E req \in requests :
        /\ req.modelType = t
        /\ \E rnd \in (IF req.modelType = "timeSeries" /\ req.live
                        THEN PanelSeriesRandom ELSE {AnyRandom}) :
                Settle(req, rnd)

NextProgress ==
    \/ PredictButton
    \/ HostRender
    \/ ClosePanel
    \/ RunClassification
    \/ runAllPredictions
    \/ SettleRequest

SpecProgress ==
    /\ InitHost
    /\ [][NextProgress]_vars
    /\ \A t \in ModelTypes : WF_vars(SettleType(t))

(***************************************************************************)
(* Closing a panel and opening another while promises of the closed one    *)
(* are still pending.                                                      *)
(***************************************************************************)
\* promises of closed panels pending when a panel is opened
MaxPendingAtMount == 2

\* the Predict button of a card, pressed while no panel is open
PredictButtonAfterClose ==
    /\ ~Mounted
    /\ Cardinality(requests) <= MaxPendingAtMount
    /\ \E i \in PanelInstruments :
        RenderPanel([name |-> i, data |-> InstrumentCard(i, instrumentData)])

NextReopen ==
    \/ TickHost
    \/ PredictButtonAfterClose
    \/ ClosePanel
    \/ RunClassification
    \/ runAllPredictions
    \/ SettleRequest

SpecReopen == InitHost /\ [][NextReopen]_vars

(***************************************************************************)
(* Properties.                                                             *)
(***************************************************************************)
IsRiskCall == call.fn = "riskScore" /\ DOMAIN call.args = Instruments

IsGenerateCall ==
    call.fn \in {"generateInstrumentData", "generateAdityaInstrumentData"}

IsClassificationCall ==
    call.fn = "predictWithModel" /\ call.args.modelType = "classification"

LevelRank(label) ==
    CASE label = "LOW" -> 0
      [] label = "MODERATE" -> 1
      [] label = "HIGH" -> 2
      [] label = "EXTREME" -> 3

\* uniform readings of -50 and of 150, and one instrument at -50 or at 150
\* while the others read 70
MalformedReadings ==
    {[i \in Instruments |-> Tenths(v)] : v \in {-50, 150}}
        \cup {[i \in Instruments |-> IF i = j THEN Tenths(v) ELSE Tenths(70)] :
                j \in Instruments, v \in {-50, 150}}

(* C1: in every state of the dashboard the displayed risk index is the     *)
(* clamped rescaled mean of the six current readings.                      *)
C1_RiskDerivedFromReadings ==
    riskIndex = RiskScore(instrumentData)

(* C2: the risk index the dashboard holds is within [0,100] after any      *)
(* sequence of ticks, and the score a tick computes is within [0,100] for  *)
(* readings that are negative or above 100.                                *)
C2_RiskIndexInRange ==
    /\ riskIndex >= 0
    /\ riskIndex <= Points(100)
    /\ \A nd \in MalformedReadings :
        RiskScore(nd) >= 0 /\ RiskScore(nd) <= Points(100)

\* a tick of the mock dashboard whose mean reading is above 100
C2_Witness ==
    /\ variant = "mock"
    /\ SumReadings(instrumentData) > 6 * Tenths(100)
    /\ riskIndex = Points(100)

(* C3: the score of six readings with mean m is 0 for m <= 40, 100 for     *)
(* m >= 100, 50 for m = 70, and (m - 40) / 60 * 100 in between.            *)
C3_RiskScoreFormula ==
    IsRiskCall =>
        LET sum == SumReadings(call.args)
            score == call.result.riskScore
        IN  /\ ~score.nan
            /\ sum <= 6 * Tenths(40) => score.val = 0
            /\ sum >= 6 * Tenths(100) => score.val = Points(100)
            /\ sum = 6 * Tenths(70) => score.val = Points(50)
            /\ (sum >= 6 * Tenths(40) /\ sum <= 6 * Tenths(100)) =>
                    score.val * 6 * Tenths(60) = (sum - 6 * Tenths(40)) * Points(100)

\* the score of readings with mean 70
C3_Witness ==
    /\ IsRiskCall
    /\ SumReadings(call.args) = 6 * Tenths(70)
    /\ call.result.riskScore = Number(Points(50))

(* C4: the level is LOW for score < 30, MODERATE for 30 <= score < 60,     *)
(* HIGH for 60 <= score < 85 and EXTREME for score >= 85, always one of    *)
(* the four, and it never decreases when the mean reading does not.        *)
C4_LevelOfScore ==
    IsRiskCall =>
        LET score == call.result.riskScore.val
            level == call.result.level
        IN  /\ level \in {"LOW", "MODERATE", "HIGH", "EXTREME"}
            /\ level = "LOW" <=> score < Points(30)
            /\ level = "MODERATE" <=> (score >= Points(30) /\ score < Points(60))
            /\ level = "HIGH" <=> (score >= Points(60) /\ score < Points(85))
            /\ level = "EXTREME" <=> score >= Points(85)

C4_LevelMonotonic ==
    (IsRiskCall /\ IsRiskCall'
        /\ SumReadings(call.args) <= SumReadings(call.args'))
    => LevelRank(call.result.level) <= LevelRank(call.result.level')

C4_RiskLevelStepFunction ==
    []C4_LevelOfScore /\ [][C4_LevelMonotonic]_vars

\* readings with mean 58 score exactly 30, which is MODERATE
C4_Witness ==
    /\ IsRiskCall
    /\ \A i \in Instruments : call.args[i] >= 0 /\ call.args[i] <= Tenths(100)
    /\ call.result.riskScore = Number(Points(30))
    /\ call.result.level = "MODERATE"

(* C5: computing the risk over a reading set that lacks an instrument      *)
(* fails with MissingInstrumentError and yields no score.                  *)
C5_MissingInstrumentFails ==
    (call.fn = "riskScore" /\ DOMAIN call.args # Instruments) =>
        /\ call.result.thrown = "MissingInstrumentError"

(* C6: the detection status of an instrument's data is ACTIVE exactly when *)
(* the value exceeds the threshold the data reports (75), MONITORING       *)
(* exactly when 60 < value <= 75, and CLEAR otherwise.                     *)
C6_DetectionTriState ==
    IsGenerateCall =>
        LET value == call.args.value
            detection == call.result.detection
        IN  /\ detection.threshold = Tenths(75)
            /\ detection.status = "ACTIVE" <=> value > detection.threshold
            /\ detection.status = "MONITORING" <=>
                    (value > Tenths(60) /\ value <= detection.threshold)
            /\ detection.status = "CLEAR" <=> value <= Tenths(60)

(* C7: classification and detection are functions of the reading value:    *)
(* two computations of an instrument's data for equal values, of the same  *)
(* or of two instruments, give equal classification and status, and two    *)
(* predictWithModel calls with equal arguments give equal predictions.     *)
C7_SameValueSameResult ==
    /\ (IsGenerateCall /\ call'.fn = call.fn
            /\ call'.args.value = call.args.value)
        => /\ call'.result.classification = call.result.classification
           /\ call'.result.detection.status = call.result.detection.status
    /\ (call.fn = "predictWithModel" /\ call'.fn = call.fn
            /\ call.args.modelType \in {"classification", "detection"}
            /\ call'.args = call.args)
        => call'.result = call.result

C7_Deterministic == [][C7_SameValueSameResult]_vars

(* C8 as stated: intensity is High exactly when value > 80, Medium exactly *)
(* when 60 < value <= 80, Low exactly when value <= 60.                    *)
C8_IntensityAt80And60 ==
    IsClassificationCall =>
        LET value == call.args.value
            intensity == call.result.classification.intensity
        IN  /\ intensity = "High" <=> value > Tenths(80)
            /\ intensity = "Medium" <=> (value > Tenths(60) /\ value <= Tenths(80))
            /\ intensity = "Low" <=> value <= Tenths(60)

(* C8 amended: intensity is High exactly when value > 75, Medium exactly   *)
(* when 50 < value <= 75, Low exactly when value <= 50.                    *)
C8_IntensityAt75And50 ==
    IsClassificationCall =>
        LET value == call.args.value
            intensity == call.result.classification.intensity
        IN  /\ intensity = "High" <=> value > Tenths(75)
            /\ intensity = "Medium" <=> (value > Tenths(50) /\ value <= Tenths(75))
            /\ intensity = "Low" <=> value <= Tenths(50)

\* a value of 76 is classified High
C8_Witness ==
    /\ IsClassificationCall
    /\ call.args.value = Tenths(76)
    /\ call.result.classification.intensity = "High"

(* C9: cmeType is "Fast Halo CME" exactly when value > 80, "Slow CME"      *)
(* exactly when 60 < value <= 80, "No Event" exactly when value <= 60, and *)
(* nothing else.                                                           *)
C9_CmeTypeThresholds ==
    IsClassificationCall =>
        LET value == call.args.value
            cmeType == call.result.classification.cmeType
        IN  /\ cmeType \in {"Fast Halo CME", "Slow CME", "No Event"}
            /\ cmeType = "Fast Halo CME" <=> value > Tenths(80)
            /\ cmeType = "Slow CME" <=> (value > Tenths(60) /\ value <= Tenths(80))
            /\ cmeType = "No Event" <=> value <= Tenths(60)

\* a value of exactly 80 is still a Slow CME
C9_Witness ==
    /\ IsClassificationCall
    /\ call.args.value = Tenths(80)
    /\ call.result.classification.cmeType = "Slow CME"

(* C10: earthDirected is true exactly when value > 70, whatever intensity  *)
(* and cmeType are reported with it.                                       *)
C10_EarthDirectedThreshold ==
    IsClassificationCall =>
        (call.result.classification.earthDirected <=> call.args.value > Tenths(70))

\* earth-directed with an intensity below High
C10_Witness ==
    /\ IsClassificationCall
    /\ call.args.value = Tenths(70) + 1
    /\ call.result.classification.earthDirected
    /\ call.result.classification.intensity = "Medium"
    /\ call.result.classification.cmeType = "Slow CME"

IsDetectionCall ==
    call.fn = "predictWithModel" /\ call.args.modelType = "detection"

IsTimeSeriesCall ==
    call.fn = "predictWithModel" /\ call.args.modelType = "timeSeries"

(* C11: for every reading value, negative and above 100 included, the      *)
(* confidence of a classification prediction and of a detection prediction *)
(* lies in [0,100].                                                        *)
C11_ConfidenceInRange ==
    /\ IsClassificationCall =>
        /\ call.result.classification.confidence >= 0
        /\ call.result.classification.confidence <= Milli(100)
    /\ IsDetectionCall =>
        /\ call.result.detection.confidence >= 0
        /\ call.result.detection.confidence <= Milli(100)

(* C12: isEvent of a detection prediction is true exactly when value > 65, *)
(* and the threshold reported with it is 65.                               *)
C12_IsEventThreshold ==
    IsDetectionCall =>
        /\ call.result.detection.isEvent <=> call.args.value > Tenths(65)
        /\ call.result.detection.threshold = Tenths(65)

\* a value of exactly 65 is no event
C12_Witness ==
    /\ IsDetectionCall
    /\ call.args.value = Tenths(65)
    /\ ~call.result.detection.isEvent

(* C13: a time-series prediction has exactly 24 points, as many as the     *)
(* horizon it reports; each point's time is greater than the time of the   *)
(* point before it; every confidence is within [0,1].                      *)
C13_ForecastShape ==
    IsTimeSeriesCall =>
        LET series == call.result.timeSeries
            points == series.predictions
        IN  /\ DOMAIN call.result = {"timeSeries"}
            /\ Len(points) = 24
            /\ Len(points) = series.horizon
            /\ \A k \in 2..Len(points) : points[k].time > points[k - 1].time
            /\ \A k \in 1..Len(points) :
                points[k].confidence >= 0 /\ points[k].confidence <= 1000

\* a forecast built while Date.now() stands still
C13_Witness ==
    /\ IsTimeSeriesCall
    /\ Len(call.result.timeSeries.predictions) = 24
    /\ call.result.timeSeries.predictions[2].time
            = call.result.timeSeries.predictions[1].time + 60000

(* C20: the registry and the specialized models reference exactly 17       *)
(* distinct artifacts: a classification and a detection model for each of  *)
(* the six instruments and five time-series models; every dashboard        *)
(* instrument name resolves to a registry entry.                           *)
ClassificationArtifacts ==
    {MODEL_REGISTRY[n].classification : n \in DOMAIN MODEL_REGISTRY}

DetectionArtifacts ==
    {MODEL_REGISTRY[n].detection : n \in DOMAIN MODEL_REGISTRY}

TimeSeriesArtifacts ==
    {MODEL_REGISTRY[n].timeSeries :
        n \in {m \in DOMAIN MODEL_REGISTRY : HasTimeSeries(MODEL_REGISTRY[m])}}
        \cup {SPECIALIZED_MODELS[k] : k \in DOMAIN SPECIALIZED_MODELS}

C20_SeventeenArtifacts ==
    call.fn = "getInstrumentModels" =>
        /\ call.args.instrumentName \in Instruments =>
            /\ call.result # NullModels
            /\ call.result = MODEL_REGISTRY[call.args.instrumentName]
        /\ DOMAIN MODEL_REGISTRY = Instruments
        /\ Cardinality(ClassificationArtifacts) = 6
        /\ Cardinality(DetectionArtifacts) = 6
        /\ TimeSeriesArtifacts =
                {"/models/proton_flux_prediction.pkl",
                 "/models/solar_wind_prediction.pkl",
                 "/models/magnetic_field_prediction.pkl",
                 "/models/unified_timeseries.pkl",
                 "/models/cme_arrival_prediction.pkl"}
        /\ Cardinality(ClassificationArtifacts \cup DetectionArtifacts
                            \cup TimeSeriesArtifacts) = 17

\* the lookup of a dashboard name whose entry has no time-series model
C20_Witness ==
    /\ call.fn = "getInstrumentModels"
    /\ call.args.instrumentName = "SoLEXS"
    /\ call.result.detection = "/models/solexs_detection.pkl"
    /\ ~HasTimeSeries(call.result)

(***************************************************************************)
(* Properties of the prediction panel (SpecPanel).                         *)
(***************************************************************************)
\* the panel has had the props it mounted with and no others
SameProps == Mounted /\ renders = 1

TickDrivenState == <<instrumentData, riskIndex, cmeDetected>>

(* C14: a panel opened for SUIT, SoLEXS or SWISS never holds a timeSeries  *)
(* prediction whatever run operations are made in it, and no request of    *)
(* type timeSeries is ever made to predictWithModel for these instruments; *)
(* in a panel for STEP, PAPA or MAG a run of the time-series model starts  *)
(* a request.                                                              *)
C14_TimeSeriesGated ==
    /\ \A req \in requests :
        req.instrumentName \in {"SUIT", "SoLEXS", "SWISS"}
            => req.modelType # "timeSeries"
    /\ (SameProps /\ selectedModelInstrument.name \in {"SUIT", "SoLEXS", "SWISS"})
            => /\ "timeSeries" \notin DOMAIN predictions
               /\ ~Loading("timeSeries")
               /\ "timeSeries" \notin StartedTypes(ModelTypes)
    /\ (Mounted /\ selectedModelInstrument.name \in {"STEP", "PAPA", "MAG"})
            => "timeSeries" \in StartedTypes(ModelTypes)

\* a SUIT panel after Predict All has settled: both results, no forecast
C14_Witness ==
    /\ SameProps
    /\ selectedModelInstrument.name = "SUIT"
    /\ DOMAIN predictions = {"classification", "detection"}
    /\ requests = {}

\* a STEP panel holding a forecast
C14_ForecastObtained ==
    /\ SameProps
    /\ selectedModelInstrument.name = "STEP"
    /\ "timeSeries" \in DOMAIN predictions
    /\ Len(predictions.timeSeries.predictions) = 24

(* C15: a panel opened for a name without registry entry shows "Models Not *)
(* Found"; no request is started in it, whichever run operation is         *)
(* attempted: no loading flag is set and the predictions stay empty; the   *)
(* dashboard's tick stays enabled.                                         *)
C15_ModelsNotFound ==
    (Mounted /\ selectedModelInstrument.name \notin DOMAIN MODEL_REGISTRY) =>
        /\ PanelView = "Models Not Found"
        /\ \A types \in SUBSET ModelTypes :
            /\ StartedTypes(types) = {}
            /\ LoadingAfterRun(types) = loading
            /\ RequestsAfterRun(types) = requests
        /\ ~ENABLED (RunClassification \/ RunDetection \/ RunTimeSeries
                        \/ runAllPredictions)
        /\ ~\E req \in requests : req.live /\ req.instrumentName = selectedModelInstrument.name
        /\ SameProps =>
            /\ predictions = EmptyPrediction
            /\ \A t \in ModelTypes : ~Loading(t)
            /\ requests = {}
        /\ ENABLED TickHost

\* the panel is open for ASPEX and a tick has replaced the readings
C15_Witness ==
    /\ SameProps
    /\ selectedModelInstrument.name = UnregisteredName
    /\ PanelView = "Models Not Found"
    /\ instrumentData # generateAdityaL1Data

(* C16: a step in which a request of some type fails leaves the            *)
(* predictions as they were, and the tick stays enabled throughout.        *)
FailureStep(t) ==
    /\ attempts[t] # "rejected"
    /\ attempts'[t] = "rejected"

C16_FailureKeepsPredictions ==
    /\ [](ENABLED TickHost)
    /\ [][\A t \in ModelTypes : FailureStep(t) => predictions' = predictions]_vars

\* the latest classification run failed and the earlier result is still held
C16_Witness ==
    /\ attempts["classification"] = "rejected"
    /\ "classification" \in DOMAIN predictions
    /\ ~Loading("classification")

(* C17: after a request of some type has failed, the panel's state marks   *)
(* the attempt as failed: it is neither the state of a type that has       *)
(* succeeded nor the state of a type never run.                            *)
LooksSucceeded(t) ==
    /\ t \in DOMAIN predictions
    /\ t \in DOMAIN loading
    /\ ~loading[t]

LooksNeverRun(t) ==
    /\ t \notin DOMAIN predictions
    /\ t \notin DOMAIN loading

C17_FailedAttemptMarked ==
    \A t \in ModelTypes :
        attempts[t] = "rejected" => ~LooksSucceeded(t) /\ ~LooksNeverRun(t)

(* C18: when the panel has been closed with a request pending, the step in *)
(* which that request settles leaves the readings, the risk index and the  *)
(* CME flag unchanged, and the state of any panel as well.                 *)
C18_OrphanSettleLeavesDashboard ==
    [][(\E req \in requests \ requests' : ~req.live)
            => /\ TickDrivenState' = TickDrivenState
               /\ UNCHANGED <<selectedInstrument, selectedModelInstrument,
                              predictions, loading, activeTab>>]_vars

\* the panel is closed, a request of it is pending, a tick has run since
\* the request was made
C18_Witness ==
    /\ ~Mounted
    /\ \E req \in requests :
        /\ ~req.live
        /\ req.instrumentName = "STEP"
        /\ req.instrumentData # Undefined
        /\ req.instrumentData.value # instrumentData["STEP"]

(* C19: a step that replaces the readings changes neither snapshot         *)
(* (selectedInstrument, selectedModelInstrument); every pending request of *)
(* a panel and every result it holds is computed from the data of the      *)
(* snapshot the panel was opened with.                                     *)
FromSnapshot(t) ==
    \E rnd \in (IF t = "timeSeries" THEN PanelSeriesRandom ELSE {AnyRandom}) :
        predictions[t] = predictWithModel(selectedModelInstrument.data, t, rnd)[t]

C19_SnapshotsImmutable ==
    /\ [](SameProps =>
            /\ \A req \in requests :
                req.live => req.instrumentData = selectedModelInstrument.data
            /\ \A t \in DOMAIN predictions : FromSnapshot(t))
    /\ [][instrumentData' # instrumentData
            => /\ selectedInstrument' = selectedInstrument
               /\ selectedModelInstrument' = selectedModelInstrument]_vars

\* both panels hold a STEP snapshot older than the current reading, and the
\* prediction panel holds a result
C19_Witness ==
    /\ SameProps
    /\ selectedModelInstrument.name = "STEP"
    /\ selectedModelInstrument.data # Undefined
    /\ selectedModelInstrument.data.value # instrumentData["STEP"]
    /\ selectedInstrument # Null
    /\ selectedInstrument.currentReading # instrumentData["STEP"]
    /\ "classification" \in DOMAIN predictions

(***************************************************************************)
(* Properties of the dashboards' risk index and alert (Spec).              *)
(***************************************************************************)
(* C26: in every reachable state of the dashboard, the initial one         *)
(* included, the CME alert is on only while the risk index exceeds 75, and *)
(* a tick that brings the index to 75 or below clears the alert.           *)
C26_AlertOnlyAbove75 ==
    cmeDetected => riskIndex > Points(75)

(* C27: in the hardcoded-data dashboard the risk index is within [65,85]   *)
(* in every reachable state and a tick changes it by at most 1; the risk   *)
(* level is never LOW or MODERATE and is EXTREME only at exactly 85.       *)
C27_AdityaRiskBand ==
    /\ [](variant = "aditya" =>
            /\ riskIndex >= Points(65)
            /\ riskIndex <= Points(85)
            /\ getRiskLevel(riskIndex) \in {"HIGH", "EXTREME"}
            /\ getRiskLevel(riskIndex) = "EXTREME" <=> riskIndex = Points(85))
    /\ [][variant = "aditya" =>
            /\ riskIndex' - riskIndex <= Points(1)
            /\ riskIndex - riskIndex' <= Points(1)]_vars

\* the index has walked up to the upper clamp
C27_Witness ==
    /\ variant = "aditya"
    /\ riskIndex = Points(85)
    /\ getRiskLevel(riskIndex) = "EXTREME"
    /\ instrumentData # generateAdityaL1Data

(***************************************************************************)
(* Properties of concurrent requests of one panel (SpecPanel).             *)
(***************************************************************************)
LiveRequests(t) == {req \in requests : req.live /\ req.modelType = t}

Succeeded(t) == attempts[t] \in {"fulfilled", "replaced"}

\* this step settles a request of type t of the mounted panel
SettlesLive(t) ==
    /\ Mounted'
    /\ \E req \in requests \ requests' : req.live /\ req.modelType = t

(* C22: in one panel at most one request of each model type is pending; a  *)
(* Run button starts nothing while the flag of its type is set, Predict    *)
(* All starts nothing while any flag is set.                               *)
C22_OneRequestPerType ==
    /\ \A t \in ModelTypes :
        /\ Cardinality(LiveRequests(t)) <= 1
        /\ Loading(t) <=> LiveRequests(t) # {}
    /\ Loading("classification") => ~ENABLED RunClassification
    /\ Loading("detection") => ~ENABLED RunDetection
    /\ Loading("timeSeries") => ~ENABLED RunTimeSeries
    /\ (\E t \in ModelTypes : Loading(t)) => ~ENABLED runAllPredictions

\* Predict All in a STEP panel: three requests pending, one of each type
C22_Witness ==
    /\ Mounted
    /\ \A t \in ModelTypes : Loading(t) /\ Cardinality(LiveRequests(t)) = 1
    /\ activeTab = "classification"

(* C23: a step that settles a request of one type changes no other type's  *)
(* entry of predictions and no other type's loading flag; a result         *)
(* obtained is held until the panel closes, so after Predict All has       *)
(* settled every result it asked for is present.                           *)
C23_TypesIndependent ==
    /\ [](\A t \in ModelTypes : Succeeded(t) => t \in DOMAIN predictions)
    /\ [][\A t \in ModelTypes : SettlesLive(t) =>
            \A u \in ModelTypes \ {t} :
                /\ u \in DOMAIN predictions' <=> u \in DOMAIN predictions
                /\ u \in DOMAIN predictions => predictions'[u] = predictions[u]
                /\ u \in DOMAIN loading' <=> u \in DOMAIN loading
                /\ u \in DOMAIN loading => loading'[u] = loading[u]]_vars

\* Predict All has settled in a STEP panel: three results, no flag set
C23_Witness ==
    /\ SameProps
    /\ selectedModelInstrument.name = "STEP"
    /\ attempts = [t \in ModelTypes |-> "fulfilled"]
    /\ DOMAIN predictions = ModelTypes
    /\ \A t \in ModelTypes : t \in DOMAIN loading /\ ~loading[t]

(* C25: the forecast held by the panel always has exactly 24 points and is *)
(* the forecast of one run; a step that completes a time-series run makes  *)
(* the held forecast the result of that run.                               *)
\* the points are those of one run: one base value and one draw (the draws
\* of PanelSeriesRandom are the same for every point), one clock reading
OneRun(points) ==
    \A k \in 1..Len(points) :
        /\ points[k].value - SinTimes10[k] = points[1].value - SinTimes10[1]
        /\ points[k].confidence = points[1].confidence
        /\ points[k].time = points[1].time + (k - 1) * 60000

ForecastsOf(instrumentDatum) ==
    {predictWithModel(instrumentDatum, "timeSeries", rnd).timeSeries :
        rnd \in PanelSeriesRandom}

C25_ForecastReplacedWhole ==
    /\ []("timeSeries" \in DOMAIN predictions =>
            /\ Len(predictions.timeSeries.predictions) = 24
            /\ OneRun(predictions.timeSeries.predictions))
    /\ [][(SettlesLive("timeSeries") /\ Succeeded("timeSeries")') =>
            \E req \in requests \ requests' :
                predictions'.timeSeries \in ForecastsOf(req.instrumentData)]_vars

\* a second forecast has replaced the first
C25_Witness ==
    /\ attempts["timeSeries"] = "replaced"
    /\ "timeSeries" \in DOMAIN predictions
    /\ Len(predictions.timeSeries.predictions) = 24
    /\ predictions.timeSeries.horizon = 24

C21_LoadingClears ==
    /\ \A t \in ModelTypes : Loading(t) ~> ~Loading(t)
    /\ []((\A t \in ModelTypes : LiveRequests(t) = {}) =>
            \A t \in ModelTypes : ~Loading(t))
    /\ []((PanelView = "Model Predictions" /\ \A t \in ModelTypes : LiveRequests(t) = {})
            => ENABLED runAllPredictions)

\* a failed detection run has cleared its flag while a classification
\* request is pending
C21_Witness ==
    /\ attempts["detection"] = "rejected"
    /\ "detection" \in DOMAIN loading
    /\ ~loading["detection"]
    /\ Loading("classification")

(***************************************************************************)
(* Properties of the detail panel's series generator (SpecSeries).         *)
(***************************************************************************)
GeneratedSeries == call.fn = "generateTimeSeriesWithPrediction"

\* C29: for every base reading the generated series has exactly 241 points,
\* 121 historical followed by 120 predicted, with strictly increasing time;
\* every historical point has a value >= 0 and no prediction, every
\* predicted point has a prediction >= 0 and a null value; all historical
\* times are <= the generation time and all predicted times are after it.
C29_SeriesShape ==
    GeneratedSeries =>
        LET data == call.result
            now == call.args.now
        IN  /\ Len(data) = 241
            /\ \A k \in 1..(Len(data) - 1) : data[k].time < data[k + 1].time
            /\ \A k \in 1..121 :
                /\ data[k].value >= 0
                /\ "prediction" \notin DOMAIN data[k]
                /\ data[k].time <= now
            /\ \A k \in 122..241 :
                /\ data[k].value = Null
                /\ data[k].prediction >= 0
                /\ data[k].time > now

\* a series for the base reading 0 whose history and forecast both hit the
\* clamp at 0, with the last historical point at the generation time
C29_Witness ==
    /\ GeneratedSeries
    /\ call.args.baseValue = 0
    /\ Len(call.result) = 241
    /\ call.result[121].time = call.args.now
    /\ \E k \in 1..121 : call.result[k].value = 0
    /\ \E k \in 122..241 : call.result[k].prediction = 0
    /\ \E k \in 122..241 : call.result[k].prediction > 0

(***************************************************************************)
(* The lifecycle of the periodic timers.  The dashboard's effect has no    *)
(* dependencies: it sets its interval when the dashboard mounts and its    *)
(* cleanup clears it when the dashboard unmounts.  The detail panel's      *)
(* effect depends on instrument.currentReading (DetailPanelAfter).         *)
(***************************************************************************)

\* the interval callback of InstrumentDetailPanel (every 5 s): a new series
\* from the currentReading the callback closed over; React ignores the
\* setState of a component that is no longer mounted
TickDetail ==
    /\ \E currentReading \in BagToSet(detailIntervals), d \in RandomDraws :
        timeSeriesData' = IF selectedInstrument # Null
                          THEN GeneratedFrom(currentReading, d)
                          ELSE timeSeriesData
    /\ UNCHANGED <<dashboardVars, call, panelVars, dashboardMounted, dashboardIntervals,
                   detailIntervals>>

\* the ticks and Analyze buttons taken while the timers are modelled: every
\* reading drawn lowest or highest (the readings, and with them the
\* currentReading of a detail panel opened next, change from tick to tick),
\* the Aditya risk index drawn to stay where it is, two cards
TimerDraws == {[i \in Instruments |-> c] : c \in RandomDraws}

TimerInstruments == {"STEP", "SUIT"}

TimerGenerateDraws == {d \in GenerateDraws : \A f \in DOMAIN d : d[f] \in {0, 50}}

TickDashboard ==
    \E r \in TimerDraws : TickMockWith(r, 90) \/ TickAdityaWith(r, 50)

AnalyzeDashboard ==
    \E i \in TimerInstruments :
        \/ \E d \in TimerGenerateDraws : AnalyzeMockOf(i, d)
        \/ AnalyzeAdityaOf(i)

\* the dashboard unmounts: its cleanup clears its interval, the panels it
\* renders unmount with it
UnmountDashboard ==
    /\ dashboardMounted
    /\ dashboardMounted' = FALSE
    /\ dashboardIntervals' = MathMax(0, dashboardIntervals - 1)
    /\ selectedInstrument' = Null
    /\ DetailPanelAfter(Null)
    /\ IF Mounted THEN PanelUnmount ELSE UNCHANGED panelVars
    /\ UNCHANGED <<variant, instrumentData, riskIndex, cmeDetected, call>>

\* the dashboard mounts again: fresh state, the effect sets one interval
MountDashboard ==
    /\ ~dashboardMounted
    /\ dashboardMounted' = TRUE
    /\ dashboardIntervals' = dashboardIntervals + 1
    /\ IF variant = "mock"
       THEN /\ \E r \in TickDraws : instrumentData' = generateMockData(r)
            /\ riskIndex' = 0
            /\ cmeDetected' = FALSE
       ELSE /\ instrumentData' = generateAdityaL1Data
            /\ riskIndex' = Points(732) \div 10
            /\ cmeDetected' = TRUE
    /\ UNCHANGED <<variant, selectedInstrument, call, panelVars, detailIntervals,
                   timeSeriesData>>

NextTimers ==
    \/ TickDashboard
    \/ AnalyzeDashboard
    \/ CloseDetail
    \/ TickDetail
    \/ UnmountDashboard
    \/ MountDashboard

InitTimersSpec ==
    /\ \/ InitAditya
       \/ InitMock /\ \E r \in TimerDraws : instrumentData = generateMockData(r)
    /\ call = NoCall
    /\ InitPanel

SpecTimers == InitTimersSpec /\ [][NextTimers]_vars

(***************************************************************************)
(* Properties of the timers (SpecTimers).                                  *)
(***************************************************************************)
DetailMounted == selectedInstrument # Null

\* C28: while the dashboard is mounted exactly one interval of it is active,
\* and while a detail panel is mounted exactly one interval of it is active,
\* closing over the reading the panel shows; after the dashboard or the
\* detail panel is unmounted none of its intervals is left, so that no tick
\* of it can happen; in particular closing and reopening a detail panel
\* never leaves two refresh intervals running.
C28_TimerLifecycle ==
    /\ dashboardIntervals = (IF dashboardMounted THEN 1 ELSE 0)
    /\ detailIntervals = (IF DetailMounted
                          THEN SetToBag({selectedInstrument.currentReading})
                          ELSE EmptyBag)
    /\ BagCardinality(detailIntervals) <= 1
    /\ ~dashboardMounted => ~DetailMounted /\ ~ENABLED (TickMock \/ TickAditya)
    /\ ~DetailMounted => ~ENABLED TickDetail

\* a detail panel whose instrument changed while it was open: its effect
\* ran again for the new reading (the series shown is still the one of the
\* reading before), and one interval is running, the new one
C28_Witness ==
    /\ dashboardMounted
    /\ DetailMounted
    /\ timeSeriesData # Null
    /\ timeSeriesData.baseValue # selectedInstrument.currentReading
    /\ BagCardinality(detailIntervals) = 1
    /\ BagIn(selectedInstrument.currentReading, detailIntervals)

====
